---------------------------- MODULE Spec2Model ----------------------------
(***************************************************************************)
(* A model of evo/tools/plot.py: the plot-mode index table, the colored    *)
(* line-segment builder and the drawing helpers that use it, the ROS map   *)
(* georegistration, and the PlotCollection life cycle.                     *)
(*                                                                         *)
(* Python sequences are 0-based; the model keeps TLA+ sequences (1-based)  *)
(* and reads element i of a Python sequence s as At(s, i).                 *)
(***************************************************************************)
EXTENDS Integers, Sequences, FiniteSets, TLC

(***************************************************************************)
(* Bounds of the model.                                                    *)
(***************************************************************************)
\* largest number of points handed to colored_line_collection
MaxPoints == 11
\* largest number of colors handed to colored_line_collection
MaxColors == 6
\* largest stride handed to colored_line_collection
MaxStep == 3
\* largest number of poses of a trajectory
MaxPoses == 5
\* largest number of add_figure calls made on one PlotCollection
MaxAdds == 3
\* largest number of serialize, deserialize and export calls in one run
MaxFileOps == 2
\* largest number of add_figure, serialize and export calls on one
\* PlotCollection that is also shown
MaxOps == 3

VARIABLES
    SETTINGS,     \* the package settings the module reads (fixed during a run)
    ret,          \* the last call of a module-level function and its outcome
    ax,           \* the matplotlib axes the drawing helpers draw into
    map_ax,       \* the matplotlib axes handed to ros_map
    files_read,   \* the files ros_map has opened, in order
    figures,      \* PlotCollection.figures: the ordered name -> figure mapping
    root_window,  \* PlotCollection.root_window
    files,        \* the file system: what each path holds
    restored,     \* a PlotCollection constructed with deserialize=path
    last,         \* the last PlotCollection operation and what it did
    add_log       \* the add_figure calls made so far, in order

drawVars == <<ret, ax>>

mapVars == <<map_ax, files_read>>

collVars == <<figures, root_window, files, restored, last, add_log>>

vars == <<SETTINGS, drawVars, mapVars, collVars>>

(***************************************************************************)
(* Python helpers.                                                         *)
(***************************************************************************)
None == "None"

\* An Optional[int]: the empty sequence for None, a one-element sequence else.
NoValue == <<>>

Some(v) == <<v>>

At(s, i) == s[i + 1]

Min2(a, b) == IF a <= b THEN a ELSE b

Max2(a, b) == IF a >= b THEN a ELSE b

\* The indices of the Python slice s[start:stop:step] of a sequence (step > 0,
\* 0 <= start, 0 <= stop): start, start + step, ... below stop.
SliceIdx(start, stop, step) ==
    LET cnt == IF stop <= start THEN 0 ELSE (stop - start + step - 1) \div step
    IN  [k \in 1..cnt |-> start + (k - 1) * step]

\* zip(a, b): pairs up to the shorter of the two.
Zip(a, b) == [k \in 1..Min2(Len(a), Len(b)) |-> <<a[k], b[k]>>]

\* n * [v]
Repeat(n, v) == [k \in 1..n |-> v]

(***************************************************************************)
(* class PlotMode                                                          *)
(***************************************************************************)
PlotMode == {"xy", "xz", "yx", "yz", "zx", "zy", "xyz"}

\* A variant of the table with the yx row not swapped.
plot_mode_to_idx_swapped(plot_mode) ==
    LET xy == CASE plot_mode \in {"xy", "xyz"} -> <<0, 1>>
                [] plot_mode = "xz" -> <<0, 2>>
                [] plot_mode = "yx" -> <<0, 1>>
                [] plot_mode = "yz" -> <<1, 2>>
                [] plot_mode = "zx" -> <<2, 0>>
                [] plot_mode = "zy" -> <<2, 1>>
    IN  <<xy[1], xy[2], IF plot_mode = "xyz" THEN Some(2) ELSE NoValue>>

plot_mode_to_idx(plot_mode) ==
    LET xy == CASE plot_mode \in {"xy", "xyz"} -> <<0, 1>>
                [] plot_mode = "xz" -> <<0, 2>>
                [] plot_mode = "yx" -> <<1, 0>>
                [] plot_mode = "yz" -> <<1, 2>>
                [] plot_mode = "zx" -> <<2, 0>>
                [] plot_mode = "zy" -> <<2, 1>>
    IN  <<xy[1], xy[2], IF plot_mode = "xyz" THEN Some(2) ELSE NoValue>>

(***************************************************************************)
(* Trajectories: the positions of trajectory t are pairwise different in   *)
(* every coordinate, so that a projection and a pairing can be told apart. *)
(***************************************************************************)
Position(t, i) == <<100 * t + 3 * i, 100 * t + 3 * i + 1, 100 * t + 3 * i + 2>>

positions_xyz(t, n) == [k \in 1..n |-> Position(t, k - 1)]

(***************************************************************************)
(* colored_line_collection                                                 *)
(***************************************************************************)
NoCollection ==
    [kind |-> None, dim |-> 0, segs |-> <<>>, colors |-> <<>>, label |-> None]

\* A variant of the segments that runs each one to the start of the next.
SegmentsToNextStart(xyz, plot_mode, step) ==
    LET idx == plot_mode_to_idx(plot_mode)
        starts == SliceIdx(0, Max2(Len(xyz) - 1, 0), step)
        ends == SliceIdx(step, Len(xyz), step)
        pairs == Zip(starts, ends)
        proj(p) == IF plot_mode = "xyz"
                   THEN <<At(p, idx[1]), At(p, idx[2]), At(p, idx[3][1])>>
                   ELSE <<At(p, idx[1]), At(p, idx[2])>>
    IN  [k \in 1..Len(pairs) |->
            <<proj(At(xyz, pairs[k][1])), proj(At(xyz, pairs[k][2]))>>]

\* The segments the comprehensions over zip(xyz[:-1:step], xyz[1::step])
\* build, projected by the indices of the plot mode.
Segments(xyz, plot_mode, step) ==
    LET idx == plot_mode_to_idx(plot_mode)
        starts == SliceIdx(0, Max2(Len(xyz) - 1, 0), step)
        ends == SliceIdx(1, Len(xyz), step)
        pairs == Zip(starts, ends)
        proj(p) == IF plot_mode = "xyz"
                   THEN <<At(p, idx[1]), At(p, idx[2]), At(p, idx[3][1])>>
                   ELSE <<At(p, idx[1]), At(p, idx[2])>>
    IN  [k \in 1..Len(pairs) |->
            <<proj(At(xyz, pairs[k][1])), proj(At(xyz, pairs[k][2]))>>]

\* A variant of the length check that is not limited to step > 1.
LengthCheckEveryStep(xyz, colors, step) ==
    Len(xyz) # Len(colors) * step

\* step > 1 and len(xyz) / step != len(colors): a true division compared
\* with an integer, which are equal only when step divides len(xyz).
LengthCheckFails(xyz, colors, step) ==
    step > 1 /\ Len(xyz) # Len(colors) * step

colored_line_collection(xyz, colors, plot_mode, step) ==
    IF LengthCheckFails(xyz, colors, step)
    THEN [exc |-> "PlotException",
          msg |-> <<"color values don't have correct length",
                    Len(xyz) \div step, Len(colors)>>,
          coll |-> NoCollection]
    ELSE [exc |-> None,
          msg |-> <<>>,
          coll |-> [kind |-> "LineCollection",
                    dim |-> IF plot_mode = "xyz" THEN 3 ELSE 2,
                    segs |-> Segments(xyz, plot_mode, step),
                    colors |-> colors,
                    label |-> None]]

(***************************************************************************)
(* Calls of the two pure functions.  The call and what it returned are     *)
(* kept in ret; neither function reads or writes any state, so a run makes *)
(* one call.                                                               *)
(***************************************************************************)
NoCall == [fn |-> None, exc |-> None]

DefaultSettings ==
    [plot_show_legend |-> TRUE, plot_split |-> FALSE, plot_backend |-> "agg",
     plot_invert_xaxis |-> FALSE, plot_invert_yaxis |-> FALSE]

NewAxes(is3d) ==
    [is3d |-> is3d, collections |-> <<>>, legend |-> FALSE, colorbars |-> 0,
     title |-> ""]

\* The parts of the state a specification does not use stay as they start.
IdleDraw == ret = NoCall /\ ax = NewAxes(FALSE)

IdleMap == map_ax = None /\ files_read = <<>>

IdleColl ==
    /\ figures = <<>>
    /\ root_window = None
    /\ files = <<>>
    /\ restored = None
    /\ last = None
    /\ add_log = <<>>

InitLines ==
    /\ SETTINGS = DefaultSettings
    /\ IdleDraw
    /\ IdleMap
    /\ IdleColl

CallPlotModeToIdx ==
    /\ ret = NoCall
    /\ \E plot_mode \in PlotMode :
        /\ ret' = [fn |-> "plot_mode_to_idx",
                   args |-> [plot_mode |-> plot_mode],
                   exc |-> None,
                   value |-> plot_mode_to_idx(plot_mode)]
        /\ UNCHANGED <<SETTINGS, ax, mapVars, collVars>>

CallColoredLineCollection ==
    /\ ret = NoCall
    /\ \E n \in 0..MaxPoints, c \in 0..MaxColors, step \in 1..MaxStep,
       plot_mode \in PlotMode :
        LET r == colored_line_collection(positions_xyz(1, n), Repeat(c, "b"),
                                         plot_mode, step)
        IN  /\ ret' = [fn |-> "colored_line_collection",
                       args |-> [n |-> n, ncolors |-> c, step |-> step,
                                 plot_mode |-> plot_mode],
                       exc |-> r.exc,
                       value |-> IF r.exc = None THEN r.coll ELSE r.msg]
            /\ UNCHANGED <<SETTINGS, ax, mapVars, collVars>>

NextLines == CallPlotModeToIdx \/ CallColoredLineCollection

SpecLines == InitLines /\ [][NextLines]_vars

(***************************************************************************)
(* The drawing helpers that build on colored_line_collection.  Each call   *)
(* keeps in ret the axes it was handed (before) beside its outcome.  The   *)
(* axes is a new one (2D or 3D) or one that already holds an artist, and a *)
(* run makes one call on it.                                               *)
(***************************************************************************)
\* A variant that lays the two position blocks one after the other.
InterweaveBlocks(a, b) == a \o b

\* interweaved_positions[0::2] = a, interweaved_positions[1::2] = b

Interweave(a, b) ==
    [k \in 1..(2 * Len(a)) |-> IF k % 2 = 1 THEN a[(k + 1) \div 2]
                                              ELSE b[k \div 2]]

\* ax.scatter(*coords, marker=..., color=...)
Scatter(coords, plot_mode, color) ==
    [kind |-> "PathCollection",
     dim |-> IF plot_mode = "xyz" THEN 3 ELSE 2,
     segs |-> <<coords>>,
     colors |-> <<color>>,
     label |-> None]

\* The artists add_start_end_markers adds for a trajectory of n poses.
add_start_end_markers(t, n, plot_mode, start_color, end_color) ==
    IF n = 0 THEN <<>>
    ELSE LET idx == plot_mode_to_idx(plot_mode)
             coords(p) == IF plot_mode = "xyz"
                          THEN <<At(p, idx[1]), At(p, idx[2]), At(p, idx[3][1])>>
                          ELSE <<At(p, idx[1]), At(p, idx[2])>>
         IN  <<Scatter(coords(Position(t, 0)), plot_mode, start_color),
               Scatter(coords(Position(t, n - 1)), plot_mode, end_color)>>

\* A 2D axes an earlier traj() call has drawn a labelled line into.
UsedAxes ==
    [NewAxes(FALSE) EXCEPT
        !.collections = <<[kind |-> "Line2D", dim |-> 2,
                           segs |-> << <<0, 0>>, <<1, 1>> >>,
                           colors |-> <<"black">>, label |-> "reference"]>>]

InitDraw ==
    /\ SETTINGS \in {[DefaultSettings EXCEPT !.plot_show_legend = b] :
                        b \in BOOLEAN}
    /\ ret = NoCall
    /\ ax \in {NewAxes(FALSE), NewAxes(TRUE), UsedAxes}
    /\ IdleMap
    /\ IdleColl

draw_correspondence_edges ==
    /\ ret = NoCall
    /\ \E n1 \in 0..MaxPoses, n2 \in 0..MaxPoses, plot_mode \in PlotMode :
        /\ LET call == [fn |-> "draw_correspondence_edges",
                        args |-> [n1 |-> n1, n2 |-> n2,
                                  plot_mode |-> plot_mode],
                        before |-> ax,
                        exc |-> None]
               interweaved_positions ==
                   Interweave(positions_xyz(1, n1), positions_xyz(2, n2))
               colors == Repeat(n1, "red")
           IN  IF n1 # n2
               THEN /\ ret' = [call EXCEPT !.exc = "PlotException"]
                    /\ UNCHANGED <<SETTINGS, ax, mapVars, collVars>>
               ELSE LET r == colored_line_collection(interweaved_positions,
                                                     colors, plot_mode, 2)
                    IN  IF r.exc # None
                        THEN /\ ret' = [call EXCEPT !.exc = r.exc]
                             /\ UNCHANGED <<SETTINGS, ax, mapVars, collVars>>
                        ELSE /\ ax' = [ax EXCEPT
                                    !.collections = Append(@,
                                        [r.coll EXCEPT !.label = "difference"]),
                                    !.legend = TRUE]
                             /\ ret' = [call EXCEPT !.exc = None]
                             /\ UNCHANGED <<SETTINGS, mapVars, collVars>>

traj_colormap ==
    /\ ret = NoCall
    /\ \E n \in 0..MaxPoses, m \in 0..MaxPoses, plot_mode \in PlotMode,
       title \in {"", "APE"}, plot_start_end_markers \in BOOLEAN :
        /\ LET call == [fn |-> "traj_colormap",
                        args |-> [n |-> n, m |-> m, plot_mode |-> plot_mode,
                                  title |-> title,
                                  markers |-> plot_start_end_markers],
                        before |-> ax,
                        exc |-> None]
               colors == [k \in 1..m |-> <<"rgba", k>>]
               r == colored_line_collection(positions_xyz(1, n), colors,
                                            plot_mode, 1)
               added == [ax EXCEPT !.collections = Append(@, r.coll)]
               decorated == [added EXCEPT
                                !.colorbars = @ + 1,
                                !.title = IF title # "" THEN title ELSE @,
                                !.legend = @ \/ SETTINGS.plot_show_legend]
           IN  IF r.exc # None
               THEN /\ ret' = [call EXCEPT !.exc = r.exc]
                    /\ UNCHANGED <<SETTINGS, ax, mapVars, collVars>>
               ELSE IF plot_mode = "xyz" /\ ax.is3d /\ n = 0
               THEN \* np.amin of an empty array
                    /\ ret' = [call EXCEPT !.exc = "ValueError"]
                    /\ ax' = added
                    /\ UNCHANGED <<SETTINGS, mapVars, collVars>>
               ELSE IF plot_start_end_markers /\ m = 0
               THEN \* colors[0] of an empty list
                    /\ ret' = [call EXCEPT !.exc = "IndexError"]
                    /\ ax' = decorated
                    /\ UNCHANGED <<SETTINGS, mapVars, collVars>>
               ELSE /\ ret' = [call EXCEPT !.exc = None]
                    /\ ax' = [decorated EXCEPT !.collections = @ \o
                                 IF plot_start_end_markers
                                 THEN add_start_end_markers(1, n, plot_mode,
                                          colors[1], colors[m])
                                 ELSE <<>>]
                    /\ UNCHANGED <<SETTINGS, mapVars, collVars>>

\* The rotation of pose i of a trajectory, as the columns of its matrix:
\* the identity for even i, a quarter turn about z for odd i.
Rotation(i) ==
    IF i % 2 = 0
    THEN <<<<1, 0, 0>>, <<0, 1, 0>>, <<0, 0, 1>>>>
    ELSE <<<<0, 1, 0>>, <<-1, 0, 0>>, <<0, 0, 1>>>>

\* traj.poses_se3: pose i as its translation p[:3, 3] and its rotation.
poses_se3(t, n) ==
    [k \in 1..n |-> [translation |-> Position(t, k - 1),
                     rotation |-> Rotation(k - 1)]]

\* [p[:3, 3], p.dot(unit)[:3]] for the unit vector of axis a (1, 2, 3)
\* scaled by marker_scale: the translation, and the translation plus
\* marker_scale times column a of the rotation.
AxisVertices(p, a, marker_scale) ==
    <<p.translation,
      [c \in 1..3 |-> p.translation[c] + marker_scale * p.rotation[a][c]]>>

\* A variant of the vertices that lists the three axes pose by pose.
VerticesPoseByPose(poses, marker_scale) ==
    [j \in 1..(6 * Len(poses)) |->
        AxisVertices(poses[((j - 1) \div 6) + 1], (((j - 1) \div 2) % 3) + 1,
                     marker_scale)[((j - 1) % 2) + 1]]

\* np.concatenate((x_vertices, y_vertices, z_vertices)).reshape((n*2*3, 3))
Vertices(poses, marker_scale) ==
    LET n == Len(poses)
        pairs == [k \in 1..(3 * n) |->
                     AxisVertices(poses[((k - 1) % n) + 1],
                                  ((k - 1) \div n) + 1, marker_scale)]
    IN  [j \in 1..(6 * n) |-> pairs[(j + 1) \div 2][((j - 1) % 2) + 1]]

MarkerScales == {-1, 0, 1, 2}

draw_coordinate_axes ==
    /\ ret = NoCall
    /\ \E n \in 0..MaxPoses, plot_mode \in PlotMode,
          marker_scale \in MarkerScales :
        /\ LET call == [fn |-> "draw_coordinate_axes",
                        args |-> [n |-> n, plot_mode |-> plot_mode,
                                  marker_scale |-> marker_scale],
                        before |-> ax,
                        exc |-> None]
               vertices == Vertices(poses_se3(1, n), marker_scale)
               colors == Repeat(n, "r") \o Repeat(n, "g") \o Repeat(n, "b")
               r == colored_line_collection(vertices, colors, plot_mode, 2)
           IN  IF marker_scale <= 0
               THEN /\ ret' = call
                    /\ UNCHANGED <<SETTINGS, ax, mapVars, collVars>>
               ELSE IF r.exc # None
               THEN /\ ret' = [call EXCEPT !.exc = r.exc]
                    /\ UNCHANGED <<SETTINGS, ax, mapVars, collVars>>
               ELSE /\ ax' = [ax EXCEPT !.collections = Append(@, r.coll)]
                    /\ ret' = call
                    /\ UNCHANGED <<SETTINGS, mapVars, collVars>>

NextDraw == draw_correspondence_edges \/ traj_colormap \/ draw_coordinate_axes

SpecDraw == InitDraw /\ [][NextDraw]_vars

(***************************************************************************)
(* Properties of plot_mode_to_idx, colored_line_collection and the         *)
(* drawing helpers.                                                        *)
(***************************************************************************)
\* The fixed table of the plot modes, written out.
IndexTable ==
    [xy |-> <<0, 1, NoValue>>, xz |-> <<0, 2, NoValue>>,
     yx |-> <<1, 0, NoValue>>, yz |-> <<1, 2, NoValue>>,
     zx |-> <<2, 0, NoValue>>, zy |-> <<2, 1, NoValue>>,
     xyz |-> <<0, 1, Some(2)>>]

\* C1: for each of the seven plot modes plot_mode_to_idx returns the row of
\* the fixed table, and xyz is the only mode whose z index is not None.
C1_IndexTable ==
    ret.fn = "plot_mode_to_idx" =>
        /\ ret.value = IndexTable[ret.args.plot_mode]
        /\ (ret.value[3] # NoValue) <=> (ret.args.plot_mode = "xyz")

C1_Witness ==
    /\ ret.fn = "plot_mode_to_idx"
    /\ ret.args.plot_mode = "yx"
    /\ ret.value = <<1, 0, NoValue>>

\* The number of segments a call of colored_line_collection with the
\* arguments kept in ret builds from its points.
SegmentsProduced ==
    Len(Segments(positions_xyz(1, ret.args.n), ret.args.plot_mode,
                 ret.args.step))

\* C4 as stated: for every step >= 1 a call whose number of colors differs
\* from the number of segments produced fails with a PlotException.
C4_MismatchFailsForEveryStep ==
    (ret.fn = "colored_line_collection" /\ ret.args.ncolors # SegmentsProduced)
        => ret.exc = "PlotException"

\* C4 as amended: for every step > 1 a call whose number of colors differs
\* from the number of segments produced fails with a PlotException whose
\* message carries len(xyz) / step as an integer and the number of colors;
\* with step = 1 no length check is made and the call succeeds whatever the
\* number of colors is.
C4_MismatchFailsForStepAbove1 ==
    ret.fn = "colored_line_collection" =>
        /\ (ret.args.step > 1 /\ ret.args.ncolors # SegmentsProduced) =>
              /\ ret.exc = "PlotException"
              /\ ret.value[2] = ret.args.n \div ret.args.step
              /\ ret.value[3] = ret.args.ncolors
        /\ ret.args.step = 1 =>
              /\ ret.exc = None
              /\ Len(ret.value.segs) = Max2(ret.args.n - 1, 0)
              /\ Len(ret.value.colors) = ret.args.ncolors

C4_Witness ==
    /\ ret.fn = "colored_line_collection"
    /\ ret.args.step = 3
    /\ ret.args.n = 11
    /\ ret.args.ncolors = 3
    /\ SegmentsProduced = 4
    /\ ret.exc = "PlotException"

\* C5: 11 points with step 2 give exactly 5 segments, 4 colors fail with a
\* PlotException and 5 colors succeed; and for step > 1 a call whose number
\* of colors equals the number of segments produced succeeds, also when the
\* number of points is no multiple of step.
C5_ElevenPointsStepTwo ==
    ret.fn = "colored_line_collection" =>
        /\ (ret.args.n = 11 /\ ret.args.step = 2 /\ ret.args.ncolors = 4)
              => ret.exc = "PlotException"
        /\ (ret.args.n = 11 /\ ret.args.step = 2 /\ ret.args.ncolors = 5)
              => (ret.exc = None /\ Len(ret.value.segs) = 5)
        /\ (ret.args.step > 1 /\ ret.args.ncolors = SegmentsProduced)
              => ret.exc = None

\* The projection of a position onto the axes of a plot mode, by the table.
Projected(p, plot_mode) ==
    LET row == IndexTable[plot_mode]
    IN  IF row[3] = NoValue
        THEN <<p[row[1] + 1], p[row[2] + 1]>>
        ELSE <<p[row[1] + 1], p[row[2] + 1], p[row[3][1] + 1]>>

\* C6: draw_correspondence_edges succeeds exactly when the two trajectories
\* have the same number of poses n; it then adds one collection of exactly n
\* segments, segment i connecting position i of traj_1 to position i of
\* traj_2, and registers the legend; when the numbers differ it raises a
\* PlotException and leaves the axes as they were.
C6_CorrespondenceEdges ==
    ret.fn = "draw_correspondence_edges" =>
        /\ (ret.exc = None) <=> (ret.args.n1 = ret.args.n2)
        /\ ret.exc # None => (ret.exc = "PlotException" /\ ax = ret.before)
        /\ ret.exc = None =>
              /\ Len(ax.collections) = Len(ret.before.collections) + 1
              /\ SubSeq(ax.collections, 1, Len(ret.before.collections))
                     = ret.before.collections
              /\ ax.legend
              /\ LET added == ax.collections[Len(ax.collections)]
                 IN  /\ Len(added.segs) = ret.args.n1
                     /\ \A i \in 1..ret.args.n1 :
                            added.segs[i] =
                                <<Projected(Position(1, i - 1),
                                            ret.args.plot_mode),
                                  Projected(Position(2, i - 1),
                                            ret.args.plot_mode)>>

C6_Witness ==
    /\ ret.fn = "draw_correspondence_edges"
    /\ ret.args.n1 = 5
    /\ ret.args.n2 = 5
    /\ ret.exc = None
    /\ Len(ax.collections[Len(ax.collections)].segs) = 5
    /\ Len(ret.before.collections) = 1

(***************************************************************************)
(* ros_map.  Lengths are integers (a resolution of 5 stands for 0.05 m per *)
(* pixel with lengths in centimetres), the yaw of the map origin is a      *)
(* number of quarter turns, and a normalized float pixel v / 255 is kept   *)
(* as its numerator v.                                                     *)
(***************************************************************************)
Viewport == {"update", "keep_unchanged", "zoom_to_map"}

\* matplotlib.transforms.Bbox: the two points <<x0, y0>>, <<x1, y1>>.
Bbox(x0, y0, x1, y1) == <<<<x0, y0>>, <<x1, y1>>>>

BboxXmin(b) == Min2(b[1][1], b[2][1])

BboxXmax(b) == Max2(b[1][1], b[2][1])

BboxYmin(b) == Min2(b[1][2], b[2][2])

BboxYmax(b) == Max2(b[1][2], b[2][2])

\* Bbox.union([a, b])
BboxUnion(a, b) ==
    Bbox(Min2(BboxXmin(a), BboxXmin(b)), Min2(BboxYmin(a), BboxYmin(b)),
         Max2(BboxXmax(a), BboxXmax(b)), Max2(BboxYmax(a), BboxYmax(b)))

\* Affine2D().rotate(angle) applied to a point, angle = q quarter turns.
Rotate(q, p) ==
    CASE q % 4 = 0 -> p
      [] q % 4 = 1 -> <<-p[2], p[1]>>
      [] q % 4 = 2 -> <<-p[1], -p[2]>>
      [] q % 4 = 3 -> <<p[2], -p[1]>>

\* Affine2D().translate(tx, ty).rotate(angle): the translation is applied
\* first and the rotation, about the origin of the axes, after it.
map_to_pixel_origin(t, q, p) == Rotate(q, <<p[1] + t[1], p[2] + t[2]>>)

\* Transform.transform_bbox: the box of the two transformed points.
transform_bbox(t, q, b) ==
    <<map_to_pixel_origin(t, q, b[1]), map_to_pixel_origin(t, q, b[2])>>

(***************************************************************************)
(* Map images: shape, dtype and the pixel values; mask is the set of the   *)
(* pixels a numpy masked array masks.                                      *)
(***************************************************************************)
PixelIdx(shape) == (0..(shape[1] - 1)) \X (0..(shape[2] - 1))

\* The value of an unknown cell, and the values of other cells.
UnknownCell == 205

FreeCell == 254

MaxUint8 == 255

PixelValues(channels) ==
    CASE channels = 1 -> {UnknownCell, FreeCell}
      [] channels = 3 -> {<<UnknownCell, UnknownCell, UnknownCell>>,
                          <<UnknownCell, FreeCell, UnknownCell>>,
                          <<FreeCell, FreeCell, FreeCell>>}
      [] channels = 4 -> {<<UnknownCell, UnknownCell, UnknownCell, MaxUint8>>,
                          <<FreeCell, FreeCell, FreeCell, MaxUint8>>}

ImagesOf(hw, channels, dtype) ==
    {[shape |-> IF channels = 1 THEN hw ELSE hw \o <<channels>>,
      dtype |-> dtype, px |-> px, mask |-> {}, masked |-> FALSE] :
        px \in [PixelIdx(hw) -> PixelValues(channels)]}

Images ==
    UNION {ImagesOf(<<2, 1>>, ch, "uint8") : ch \in {1, 3}}
    \cup ImagesOf(<<1, 2>>, 4, "uint8")
    \cup ImagesOf(<<1, 2>>, 1, "float32")
    \cup ImagesOf(<<1, 1>>, 3, "float32")
    \cup ImagesOf(<<1, 2>>, 1, "uint16")

\* The masking branch of ros_map (mask_unknown_value is not None and not 0).
MaskUnknown(image, mask_unknown_value) ==
    LET n_channels == IF Len(image.shape) > 2 THEN image.shape[3] ELSE 1
        known_dtype == image.dtype \in {"uint8", "float32"}
        max_alpha == IF image.dtype = "uint8" THEN MaxUint8
                     ELSE MaxUint8  \* 1.0, as a numerator over 255
    IN  IF n_channels = 1
        THEN IF ~known_dtype
             THEN [exc |-> "UnboundLocalError", image |-> image,
                   warning |-> FALSE]
             ELSE [exc |-> None,
                   image |-> [image EXCEPT
                       !.masked = TRUE,
                       !.mask = {i \in DOMAIN image.px :
                                    image.px[i] = mask_unknown_value}],
                   warning |-> FALSE]
        ELSE IF n_channels = 3
        THEN IF ~known_dtype
             THEN [exc |-> "UnboundLocalError", image |-> image,
                   warning |-> FALSE]
             ELSE [exc |-> None,
                   image |-> [image EXCEPT
                       !.shape = <<image.shape[1], image.shape[2], 4>>,
                       !.px = [i \in DOMAIN image.px |->
                                  image.px[i] \o
                                  <<IF \A c \in 1..3 :
                                          image.px[i][c] = mask_unknown_value
                                    THEN 0 ELSE max_alpha>>]],
                   warning |-> FALSE]
        ELSE [exc |-> None, image |-> image, warning |-> TRUE]

\* np.fliplr(np.rot90(image))
RotateAndFlip(image) ==
    LET h == image.shape[1]
        w == image.shape[2]
        src(i) == <<h - 1 - i[2], w - 1 - i[1]>>
        shape == <<w, h>> \o SubSeq(image.shape, 3, Len(image.shape))
    IN  [image EXCEPT
            !.shape = shape,
            !.px = [i \in PixelIdx(shape) |-> image.px[src(i)]],
            !.mask = {i \in PixelIdx(shape) : src(i) \in image.mask}]

\* A variant of the metric size that takes the rows for the width.
MetricSizeRowsForWidth(shape, x_idx, y_idx, resolution) ==
    <<At(shape, x_idx) * resolution, At(shape, y_idx) * resolution>>

\* <<metric_width, metric_height>>: n_rows, n_cols = image.shape[x_idx],
\* image.shape[y_idx], each times the resolution.
MetricSize(shape, x_idx, y_idx, resolution) ==
    LET n_rows == At(shape, x_idx)
        n_cols == At(shape, y_idx)
    IN  <<n_cols * resolution, n_rows * resolution>>

\* A variant that keeps the data limits the image insertion left.
ReconcileViewportKeepsCurrent(viewport, original_bbox, current, bbox) ==
    CASE viewport = "update" -> BboxUnion(original_bbox, bbox)
      [] viewport = "zoom_to_map" -> bbox
      [] viewport = "keep_unchanged" -> current

\* The data limits the viewport branches of ros_map set; current is what
\* the image insertion left.
ReconcileViewport(viewport, original_bbox, current, bbox) ==
    CASE viewport = "update" -> BboxUnion(original_bbox, bbox)
      [] viewport = "zoom_to_map" -> bbox
      [] viewport = "keep_unchanged" -> original_bbox

\* A variant that takes every axes for a 2D one.
IsAxes3DNever(a) == FALSE

\* isinstance(ax, Axes3D)
IsAxes3D(a) == a.is3d

\* The plot modes whose plane the map image does not lie in.
OffPlaneModes == {"xz", "yz", "zx", "zy"}

NewMapAxes(is3d, dataLim) ==
    [is3d |-> is3d, dataLim |-> dataLim, images |-> <<>>,
     xaxis_inverted |-> FALSE, yaxis_inverted |-> FALSE]

MapOrigins == {<<1, 1, q>> : q \in 0..3} \cup {<<-2, 3, 0>>}

Resolutions == {1, 5}

InitMap ==
    /\ \E i \in 1..3 :
          /\ SETTINGS = [DefaultSettings EXCEPT !.plot_invert_xaxis = (i = 2)]
          /\ map_ax = <<NewMapAxes(FALSE, Bbox(0, 0, 3, 3)),
                        NewMapAxes(FALSE, Bbox(-4, 2, 8, 12)),
                        NewMapAxes(TRUE, Bbox(0, 0, 3, 3))>>[i]
    /\ IdleDraw
    /\ files_read = <<>>
    /\ IdleColl

ros_map ==
    /\ ret = NoCall
    /\ \E plot_mode \in PlotMode, viewport \in Viewport, image \in Images,
       origin \in MapOrigins, resolution \in Resolutions,
       mask_unknown_value \in {NoValue, Some(0), Some(UnknownCell)} :
        /\ LET call == [fn |-> "ros_map",
                        args |-> [plot_mode |-> plot_mode,
                                  viewport |-> viewport, image |-> image,
                                  origin |-> origin,
                                  resolution |-> resolution,
                                  mask_unknown_value |-> mask_unknown_value],
                        before |-> map_ax,
                        exc |-> None,
                        warning |-> FALSE]
           IN  IF IsAxes3D(map_ax)
               THEN /\ ret' = [call EXCEPT !.exc = "PlotException"]
                    /\ UNCHANGED <<mapVars>>
               ELSE IF plot_mode \in OffPlaneModes
               THEN /\ ret' = call
                    /\ UNCHANGED <<mapVars>>
               ELSE
               LET idx == plot_mode_to_idx(plot_mode)
                   x_idx == idx[1]
                   y_idx == idx[2]
                   \* "if mask_unknown_value:" is false for None and for 0
                   masking == IF mask_unknown_value \in {NoValue, Some(0)}
                              THEN [exc |-> None, image |-> image,
                                    warning |-> FALSE]
                              ELSE MaskUnknown(image, mask_unknown_value[1])
                   original_bbox == map_ax.dataLim
                   size == MetricSize(masking.image.shape, x_idx, y_idx,
                                      resolution)
                   metric_width == size[1]
                   metric_height == size[2]
                   extent == <<0, metric_width, 0, metric_height>>
                   shown == IF plot_mode = "yx"
                            THEN RotateAndFlip(masking.image)
                            ELSE masking.image
                   \* ax.imshow: the image is added and the data limits
                   \* grow by its extent
                   current == BboxUnion(map_ax.dataLim,
                                  Bbox(0, 0, metric_width, metric_height))
                   t == <<At(origin, x_idx), At(origin, y_idx)>>
                   angle == IF plot_mode = "yx" THEN -At(origin, 2)
                            ELSE At(origin, 2)
                   bbox == transform_bbox(t, angle,
                               Bbox(0, 0, metric_width, metric_height))
               IN  /\ files_read' = files_read \o <<"yaml", "image">>
                   /\ IF masking.exc # None
                      THEN /\ ret' = [call EXCEPT !.exc = masking.exc]
                           /\ UNCHANGED map_ax
                      ELSE /\ ret' = [call EXCEPT
                                         !.warning = masking.warning]
                           /\ map_ax' = [map_ax EXCEPT
                                  !.images = Append(@,
                                      [image |-> shown, extent |-> extent,
                                       translate |-> t, rotate |-> angle]),
                                  !.dataLim = ReconcileViewport(viewport,
                                      original_bbox, current, bbox),
                                  \* imshow resets an inverted axis; the
                                  \* settings invert it again
                                  !.xaxis_inverted =
                                      SETTINGS.plot_invert_xaxis,
                                  !.yaxis_inverted =
                                      SETTINGS.plot_invert_yaxis]
        /\ UNCHANGED <<SETTINGS, ax, collVars>>

NextMap == ros_map

SpecMap == InitMap /\ [][NextMap]_vars

(***************************************************************************)
(* Properties of ros_map.                                                  *)
(***************************************************************************)
\* <<xmin, ymin, xmax, ymax>> of a Bbox.
Extents(b) == <<BboxXmin(b), BboxYmin(b), BboxXmax(b), BboxYmax(b)>>

\* The smallest and the largest element of a non-empty set of integers.
Least(S) == CHOOSE v \in S : \A u \in S : v <= u

Greatest(S) == CHOOSE v \in S : \A u \in S : v >= u

\* The bounding box of the map of the ros_map call kept in ret, in mode xy
\* or yx: the four corners of its metric footprint, moved by the origin and
\* turned by the yaw (against the yaw in mode yx).
MapBounds ==
    LET a == ret.args
        h == a.image.shape[1] * a.resolution
        w == a.image.shape[2] * a.resolution
        width == IF a.plot_mode = "yx" THEN h ELSE w
        height == IF a.plot_mode = "yx" THEN w ELSE h
        tx == IF a.plot_mode = "yx" THEN a.origin[2] ELSE a.origin[1]
        ty == IF a.plot_mode = "yx" THEN a.origin[1] ELSE a.origin[2]
        q == IF a.plot_mode = "yx" THEN (4 - a.origin[3]) % 4 ELSE a.origin[3]
        turn(p) == IF q = 0 THEN p
                   ELSE IF q = 1 THEN <<-p[2], p[1]>>
                   ELSE IF q = 2 THEN <<-p[1], -p[2]>>
                   ELSE <<p[2], -p[1]>>
        corners == {turn(<<x + tx, y + ty>>) : x \in {0, width},
                                                 y \in {0, height}}
        xs == {c[1] : c \in corners}
        ys == {c[2] : c \in corners}
    IN  <<Least(xs), Least(ys), Greatest(xs), Greatest(ys)>>

\* A completed ros_map call on a 2D axes in a mode of the map plane.
MapDrawn ==
    /\ ret.fn = "ros_map"
    /\ ret.exc = None
    /\ ~ret.before.is3d
    /\ ret.args.plot_mode \in {"xy", "yx"}

\* The call of the example: bounds [(0,0),(3,3)] before it, and a map whose
\* bounds are [(1,1),(6,11)].
MapExample ==
    /\ MapDrawn
    /\ ret.before.dataLim = Bbox(0, 0, 3, 3)
    /\ ret.args.plot_mode = "xy"
    /\ ret.args.origin = <<1, 1, 0>>
    /\ ret.args.resolution = 5
    /\ ret.args.image.shape[1] = 2
    /\ ret.args.image.shape[2] = 1

\* C7: after ros_map on a 2D axes in a map-plane mode the data bounds are
\* the union of the bounds held before and the map's bounds (update), the
\* map's bounds (zoom_to_map), or the bounds held before (keep_unchanged);
\* for bounds [(0,0),(3,3)] and map bounds [(1,1),(6,11)] they are
\* [(0,0),(6,11)], [(1,1),(6,11)] and [(0,0),(3,3)].
C7_ViewportBounds ==
    MapDrawn =>
        LET old == Extents(ret.before.dataLim)
            map == MapBounds
            new == Extents(map_ax.dataLim)
            v == ret.args.viewport
        IN  /\ v = "update" =>
                  new = <<Min2(old[1], map[1]), Min2(old[2], map[2]),
                          Max2(old[3], map[3]), Max2(old[4], map[4])>>
            /\ v = "zoom_to_map" => new = map
            /\ v = "keep_unchanged" => map_ax.dataLim = ret.before.dataLim
            /\ MapExample =>
                  /\ map = <<1, 1, 6, 11>>
                  /\ v = "update" => new = <<0, 0, 6, 11>>
                  /\ v = "zoom_to_map" => new = <<1, 1, 6, 11>>
                  /\ v = "keep_unchanged" => new = <<0, 0, 3, 3>>

C7_Witness ==
    /\ MapExample
    /\ ret.args.viewport = "keep_unchanged"
    /\ Len(map_ax.images) = 1
    /\ map_ax.images[1].extent = <<0, 5, 0, 10>>
    /\ map_ax.dataLim = Bbox(0, 0, 3, 3)

\* C8: ros_map raises a PlotException on a 3D axes, in every plot mode and
\* before any file is read; on a 2D axes in mode xz, yz, zx or zy it returns
\* without reading a file, adding an image or changing the data bounds.
C8_RejectedOrSkipped ==
    ret.fn = "ros_map" =>
        /\ ret.before.is3d =>
              /\ ret.exc = "PlotException"
              /\ files_read = <<>>
              /\ map_ax = ret.before
        /\ (~ret.before.is3d /\ ret.args.plot_mode \in {"xz", "yz", "zx", "zy"})
              => /\ ret.exc = None
                 /\ files_read = <<>>
                 /\ map_ax.images = <<>>
                 /\ map_ax.dataLim = ret.before.dataLim
                 /\ map_ax = ret.before

C8_Witness ==
    /\ ret.fn = "ros_map"
    /\ ret.before.is3d
    /\ ret.args.plot_mode = "xy"
    /\ ret.exc = "PlotException"
    /\ files_read = <<>>

\* The image the ros_map call kept in ret added to the axes.
MapImage == map_ax.images[Len(map_ax.images)]

\* C14: the metric footprint is the pixel count along each projected axis
\* times the resolution: in mode xy an image of H rows and W columns gets
\* width W * resolution and height H * resolution, in mode yx width
\* H * resolution and height W * resolution, which is the column count and
\* the row count of the rotated and mirrored image that is shown.
C14_MetricFootprint ==
    MapDrawn =>
        LET H == ret.args.image.shape[1]
            W == ret.args.image.shape[2]
            r == ret.args.resolution
        IN  /\ ret.args.plot_mode = "xy" =>
                  MapImage.extent = <<0, W * r, 0, H * r>>
            /\ ret.args.plot_mode = "yx" =>
                  MapImage.extent = <<0, H * r, 0, W * r>>
            /\ MapImage.extent = <<0, MapImage.image.shape[2] * r,
                                   0, MapImage.image.shape[1] * r>>

C14_Witness ==
    /\ MapDrawn
    /\ ret.args.plot_mode = "yx"
    /\ ret.args.image.shape[1] = 2
    /\ ret.args.image.shape[2] = 1
    /\ ret.args.resolution = 5
    /\ MapImage.extent = <<0, 10, 0, 5>>
    /\ MapImage.image.shape[1] = 1

\* C15: the transform of ros_map maps the image-local point (0,0) to
\* (origin[x_idx], origin[y_idx]) of the active axes for every origin
\* (x, y, yaw), a yaw of a quarter turn included.
C15_LowerLeftAtOrigin ==
    MapDrawn =>
        LET idx == plot_mode_to_idx(ret.args.plot_mode)
        IN  map_to_pixel_origin(MapImage.translate, MapImage.rotate, <<0, 0>>)
                = <<At(ret.args.origin, idx[1]), At(ret.args.origin, idx[2])>>

\* The number of channels of an image.
ChannelsOf(image) == IF Len(image.shape) > 2 THEN image.shape[3] ELSE 1

\* The image ros_map is to show for image and the mask value m, in the
\* orientation of the file: unchanged without a mask value and for channel
\* counts other than 1 and 3, masked at the pixels equal to m for one
\* channel, with an alpha channel that is 0 where all three channels equal
\* m for three channels.
MaskedAsStated(image, m) ==
    IF m \in {NoValue, Some(0)} \/ ChannelsOf(image) \notin {1, 3}
    THEN image
    ELSE IF ChannelsOf(image) = 1
    THEN [image EXCEPT !.masked = TRUE,
                       !.mask = {i \in DOMAIN image.px : image.px[i] = m[1]}]
    ELSE [image EXCEPT
             !.shape = <<image.shape[1], image.shape[2], 4>>,
             !.px = [i \in DOMAIN image.px |->
                        <<image.px[i][1], image.px[i][2], image.px[i][3],
                          IF image.px[i] = <<m[1], m[1], m[1]>>
                          THEN 0 ELSE MaxUint8>>]]

\* C16: without a mask value (None or 0) no masking is done; with one, a
\* single-channel image is masked at exactly the pixels equal to it, a
\* 3-channel image gets an alpha channel that is zero exactly where all
\* three channels equal it and full elsewhere, and an image of another
\* channel count is left unmasked with a warning; the map is drawn, without
\* an error, for every image.
C16_Masking ==
    (ret.fn = "ros_map" /\ ~ret.before.is3d
        /\ ret.args.plot_mode \in {"xy", "yx"}) =>
        LET a == ret.args
            stated == MaskedAsStated(a.image, a.mask_unknown_value)
        IN  /\ ret.exc = None
            /\ Len(map_ax.images) = Len(ret.before.images) + 1
            /\ MapImage.image = IF a.plot_mode = "yx"
                                THEN RotateAndFlip(stated) ELSE stated
            /\ ret.warning =
                  (a.mask_unknown_value \notin {NoValue, Some(0)}
                   /\ ChannelsOf(a.image) \notin {1, 3})

(***************************************************************************)
(* class PlotCollection.                                                   *)
(*                                                                         *)
(* A string that names a figure or a file is kept as a sequence of tokens, *)
(* "." and "/" being tokens of their own, so that + is \o and              *)
(* os.path.splitext can look for the last dot.  A figure is its visual     *)
(* content and whether pyplot still manages it (open).  figures is the     *)
(* OrderedDict as the sequence of its items.                               *)
(***************************************************************************)
Names == {<<"traj_xy">>, <<"traj_xyz">>}

Contents == {"c1", "c2"}

Figure(content) == [content |-> content, open |-> TRUE]

\* The position of key name in an OrderedDict, 0 when it is not a key.
KeyIndex(d, name) ==
    IF \E i \in 1..Len(d) : d[i].name = name
    THEN CHOOSE i \in 1..Len(d) : d[i].name = name
    ELSE 0

\* A variant of d[name] = fig that moves a key set again to the end.
OrderedDictSetMovesToEnd(d, name, fig) ==
    LET i == KeyIndex(d, name)
        rest == IF i = 0 THEN d
                ELSE SubSeq(d, 1, i - 1) \o SubSeq(d, i + 1, Len(d))
    IN  Append(rest, [name |-> name, fig |-> fig])

\* d[name] = fig on an OrderedDict: a new key goes to the end, a key that is
\* there keeps its place and gets the new value.
OrderedDictSet(d, name, fig) ==
    LET i == KeyIndex(d, name)
    IN  IF i = 0 THEN Append(d, [name |-> name, fig |-> fig])
        ELSE [d EXCEPT ![i] = [name |-> name, fig |-> fig]]

(***************************************************************************)
(* Files.                                                                  *)
(***************************************************************************)
\* The last position of token tok in s, 0 when it is not in s.
LastIndex(s, tok) ==
    CHOOSE i \in 0..Len(s) :
        /\ i > 0 => s[i] = tok
        /\ \A j \in (i + 1)..Len(s) : s[j] # tok

\* os.path.splitext: the extension starts at the last dot of the last path
\* component, unless only dots come before it in that component.
splitext(path) ==
    LET sepIndex == LastIndex(path, "/")
        dotIndex == LastIndex(path, ".")
    IN  IF dotIndex > sepIndex
           /\ \E k \in (sepIndex + 1)..(dotIndex - 1) : path[k] # "."
        THEN <<SubSeq(path, 1, dotIndex - 1), SubSeq(path, dotIndex, Len(path))>>
        ELSE <<path, <<>>>>

\* A variant of the per-figure file name without the underscore.
FigureDestNoSeparator(file_path, name) ==
    splitext(file_path)[1] \o name \o splitext(file_path)[2]

\* dest = base + '_' + name + ext
FigureDest(file_path, name) ==
    splitext(file_path)[1] \o <<"_">> \o name \o splitext(file_path)[2]

PicklePaths == {<<"plots", ".", "pickle">>}

ExportPaths == {<<"plots", ".", "pdf">>, <<"plots", ".", "png">>}

AllPaths ==
    PicklePaths \cup ExportPaths
    \cup {FigureDest(file_path, name) : file_path \in ExportPaths,
                                        name \in Names}

NoFile == [kind |-> "absent", data |-> <<>>]

\* A file some other program has written.
OtherFile == [kind |-> "other", data |-> <<>>]

exists(fs, path) == fs[path] # NoFile

\* A variant of pickle.dump that writes the items last to first.
PickleDumpReversed(d) ==
    [kind |-> "pickle",
     data |-> [type |-> "OrderedDict",
               items |-> [i \in 1..Len(d) |->
                             [name |-> d[Len(d) + 1 - i].name,
                              content |-> d[Len(d) + 1 - i].fig.content,
                              restore_to_pylab |-> d[Len(d) + 1 - i].fig.open]]]]

\* pickle.dump(self.figures, ...): the type and the items in order; a
\* figure is pickled as its content and whether to register it with pyplot
\* again.
PickleDump(d) ==
    [kind |-> "pickle",
     data |-> [type |-> "OrderedDict",
               items |-> [i \in 1..Len(d) |->
                             [name |-> d[i].name,
                              content |-> d[i].fig.content,
                              restore_to_pylab |-> d[i].fig.open]]]]

\* The OrderedDict built from pickled items, set one after the other.
RECURSIVE FromItems(_, _)
FromItems(items, d) ==
    IF items = <<>> THEN d
    ELSE FromItems(Tail(items),
             OrderedDictSet(d, Head(items).name,
                 [content |-> Head(items).content,
                  open |-> Head(items).restore_to_pylab]))

\* pickle.load(open(path, 'rb')): the value pickled, whatever its type is.
\* An OrderedDict is the sequence of its items, a value of another type is
\* kept as the pickled data.
PickleLoad(fs, path) ==
    IF ~exists(fs, path)
    THEN [exc |-> "FileNotFoundError", type |-> None, value |-> <<>>]
    ELSE IF fs[path].kind # "pickle"
    THEN [exc |-> "UnpicklingError", type |-> None, value |-> <<>>]
    ELSE IF fs[path].data.type = "OrderedDict"
    THEN [exc |-> None, type |-> "OrderedDict",
          value |-> FromItems(fs[path].data.items, <<>>)]
    ELSE [exc |-> None, type |-> fs[path].data.type, value |-> fs[path].data]

\* fig.savefig(dest)
SavedFigure(fig, ext) == [kind |-> "figure", data |-> <<fig.content, ext>>]

\* PdfPages(file_path) with one pdf.savefig(fig) for each figure, in order.
SavedPdf(d) ==
    [kind |-> "pdf", data |-> [i \in 1..Len(d) |-> d[i].fig.content]]

(***************************************************************************)
(* PlotCollection operations.  last keeps the operation made last: its     *)
(* arguments, the state it started from, and the calls of                  *)
(* user.check_and_confirm_overwrite and the file writes it made, in order. *)
(***************************************************************************)
Confirm(path, existed, result) ==
    [ev |-> "confirm", path |-> path, existed |-> existed, result |-> result]

Write(path) ==
    [ev |-> "write", path |-> path, existed |-> FALSE, result |-> TRUE]

\* No operation made yet.
NewCall == [fn |-> None, exc |-> None, n |-> 0]

Op(op, args, events, n) ==
    [fn |-> op, exc |-> None, args |-> args, figures |-> figures,
     files |-> files, events |-> events, n |-> n]

\* The collections that calls of add_figure build from an empty one.
Populated ==
    {<<>>}
    \cup {<<[name |-> n, fig |-> Figure(c)]>> : n \in Names, c \in Contents}
    \cup {<<[name |-> n[1], fig |-> Figure(c[1])],
             [name |-> n[2], fig |-> Figure(c[2])]>> :
            n \in {m \in Names \X Names : m[1] # m[2]},
            c \in Contents \X Contents}

add_figure ==
    /\ Len(add_log) < MaxAdds
    /\ \E name \in Names, content \in Contents :
        /\ figures' = OrderedDictSet(figures, name, Figure(content))
        /\ add_log' = Append(add_log, [name |-> name, fig |-> Figure(content)])
        /\ last' = Op("add_figure", [name |-> name], <<>>, last.n)
    /\ UNCHANGED <<SETTINGS, drawVars, mapVars, root_window, files, restored>>

close ==
    /\ figures' = [i \in 1..Len(figures) |->
                      [figures[i] EXCEPT !.fig.open = FALSE]]
    /\ last' = Op("close", <<>>, <<>>, last.n)
    /\ UNCHANGED <<SETTINGS, drawVars, mapVars, root_window, files, restored,
                   add_log>>

\* A variant of the choice of display that opens the tabbed window in split
\* mode too.
DisplayIgnoresSplit(d, settings) ==
    IF Len(d) = 0 THEN None
    ELSE IF settings.plot_backend = "qt5agg" THEN "tabbed_qt5_window"
    ELSE IF settings.plot_backend = "tkagg" THEN "tabbed_tk_window"
    ELSE "plt.show"

\* What show() calls for the figures d: nothing for an empty collection, a
\* tabbed window when split is off and the backend is qt5agg or tkagg,
\* plt.show() otherwise.
Display(d, settings) ==
    IF Len(d) = 0 THEN None
    ELSE IF ~settings.plot_split
    THEN IF settings.plot_backend = "qt5agg" THEN "tabbed_qt5_window"
         ELSE IF settings.plot_backend = "tkagg" THEN "tabbed_tk_window"
         ELSE "plt.show"
    ELSE "plt.show"

\* tab.canvas.get_width_height(): the rendered size of a figure, in pixels;
\* the two figure contents are a wide and a tall figure.
get_width_height(fig) ==
    IF fig.content = "c1" THEN <<640, 480>> ELSE <<500, 700>>

\* max() of a non-empty sequence of (width, height) tuples: tuples compare
\* by their first element, and by the second when the first are equal.
TupleMax(sizes) ==
    LET above(a, b) == a[1] > b[1] \/ (a[1] = b[1] /\ a[2] >= b[2])
    IN  sizes[CHOOSE i \in 1..Len(sizes) :
                  \A j \in 1..Len(sizes) : above(sizes[i], sizes[j])]

\* tabbed_qt5_window: sizes = [(0, 0)] and one entry for each tab; the
\* window is resized to max(sizes).
QtWindowSize(d) ==
    TupleMax(<<<<0, 0>>>> \o [i \in 1..Len(d) |-> get_width_height(d[i].fig)])

show ==
    /\ root_window' =
           IF Display(figures, SETTINGS) = "tabbed_qt5_window"
           THEN "QTabWidget"
           ELSE IF Display(figures, SETTINGS) = "tabbed_tk_window"
           THEN "Tk"
           ELSE root_window
    /\ last' = Op("show",
                  [display |-> Display(figures, SETTINGS),
                   resize |-> IF Display(figures, SETTINGS)
                                    = "tabbed_qt5_window"
                              THEN QtWindowSize(figures) ELSE NoValue],
                  <<>>, last.n)
    /\ UNCHANGED <<SETTINGS, drawVars, mapVars, figures, files, restored,
                   add_log>>

\* user.check_and_confirm_overwrite(path): true when nothing is at path,
\* else the answer the user gives.
check_and_confirm_overwrite(fs, path, answer) ==
    IF exists(fs, path) THEN answer ELSE TRUE

\* A variant of the serialize guard that asks but ignores the answer.
SerializeDeclinedNever(confirm_overwrite, confirmed) == FALSE

\* confirm_overwrite and not user.check_and_confirm_overwrite(dest)
SerializeDeclined(confirm_overwrite, confirmed) ==
    confirm_overwrite /\ ~confirmed

serialize ==
    /\ last.n < MaxFileOps
    /\ \E dest \in PicklePaths, confirm_overwrite \in BOOLEAN,
          answer \in BOOLEAN :
        LET confirmed == check_and_confirm_overwrite(files, dest, answer)
            asked == IF confirm_overwrite
                     THEN <<Confirm(dest, exists(files, dest), confirmed)>>
                     ELSE <<>>
            args == [dest |-> dest, confirm_overwrite |-> confirm_overwrite]
        IN  \* the answer counts only when the user is asked
            /\ (~confirm_overwrite \/ ~exists(files, dest)) => answer
            /\ IF SerializeDeclined(confirm_overwrite, confirmed)
               THEN /\ UNCHANGED files
                    /\ last' = Op("serialize", args, asked, last.n + 1)
               ELSE /\ files' = [files EXCEPT ![dest] = PickleDump(figures)]
                    /\ last' = Op("serialize", args,
                                  Append(asked, Write(dest)), last.n + 1)
    /\ UNCHANGED <<SETTINGS, drawVars, mapVars, figures, root_window, restored,
                   add_log>>

\* PlotCollection(deserialize=path): the collection constructed, or the
\* exception the construction ends with.
deserialize ==
    /\ last.n < MaxFileOps
    /\ \E path \in PicklePaths :
        LET r == PickleLoad(files, path)
        IN  /\ restored' = [exc |-> r.exc, title |-> "", type |-> r.type,
                            figures |-> r.value, root_window |-> None]
            /\ last' = [fn |-> "deserialize", exc |-> r.exc,
                        args |-> [dest |-> path], figures |-> figures,
                        files |-> files, events |-> <<>>, n |-> last.n + 1,
                        prev |-> IF last.fn = None THEN NewCall
                                 ELSE [fn |-> last.fn, args |-> last.args,
                                       files |-> last.files,
                                       events |-> last.events]]
    /\ UNCHANGED <<SETTINGS, drawVars, mapVars, figures, root_window, files,
                   add_log>>

\* A variant of the loop that goes on to the next figure after a declined
\* confirmation.
RECURSIVE ExportEachSkipsDeclined(_, _, _, _, _, _)
ExportEachSkipsDeclined(i, fs, events, file_path, confirm_overwrite, answers) ==
    IF i > Len(figures) THEN [files |-> fs, events |-> events]
    ELSE LET dest == FigureDest(file_path, figures[i].name)
             confirmed == check_and_confirm_overwrite(fs, dest, answers[i])
             asked == IF confirm_overwrite
                      THEN <<Confirm(dest, exists(fs, dest), confirmed)>>
                      ELSE <<>>
         IN  IF confirm_overwrite /\ ~confirmed
             THEN ExportEachSkipsDeclined(i + 1, fs, events \o asked,
                      file_path, confirm_overwrite, answers)
             ELSE ExportEachSkipsDeclined(i + 1,
                      [fs EXCEPT ![dest] = SavedFigure(figures[i].fig,
                                               splitext(file_path)[2])],
                      events \o asked \o <<Write(dest)>>,
                      file_path, confirm_overwrite, answers)

\* The loop of export over self.figures.items() from item i on: the file
\* system and the events when the loop ends or returns.
RECURSIVE ExportEach(_, _, _, _, _, _)
ExportEach(i, fs, events, file_path, confirm_overwrite, answers) ==
    IF i > Len(figures) THEN [files |-> fs, events |-> events]
    ELSE LET dest == FigureDest(file_path, figures[i].name)
             confirmed == check_and_confirm_overwrite(fs, dest, answers[i])
             asked == IF confirm_overwrite
                      THEN <<Confirm(dest, exists(fs, dest), confirmed)>>
                      ELSE <<>>
         IN  IF confirm_overwrite /\ ~confirmed
             THEN [files |-> fs, events |-> events \o asked]
             ELSE ExportEach(i + 1,
                      [fs EXCEPT ![dest] = SavedFigure(figures[i].fig,
                                               splitext(file_path)[2])],
                      events \o asked \o <<Write(dest)>>,
                      file_path, confirm_overwrite, answers)

export ==
    /\ last.n < MaxFileOps
    /\ \E file_path \in ExportPaths, confirm_overwrite \in BOOLEAN,
          answers \in [1..Max2(Len(figures), 1) -> BOOLEAN] :
        LET ext == splitext(file_path)[2]
            args == [file_path |-> file_path,
                     confirm_overwrite |-> confirm_overwrite]
        IN  IF ext = <<".", "pdf">> /\ ~SETTINGS.plot_split
            THEN LET confirmed == check_and_confirm_overwrite(files, file_path,
                                                              answers[1])
                     asked == IF confirm_overwrite
                              THEN <<Confirm(file_path,
                                             exists(files, file_path),
                                             confirmed)>>
                              ELSE <<>>
                 IN  /\ \A k \in DOMAIN answers :
                            (k > 1 \/ ~confirm_overwrite
                             \/ ~exists(files, file_path)) => answers[k]
                     /\ IF confirm_overwrite /\ ~confirmed
                        THEN /\ UNCHANGED files
                             /\ last' = Op("export", args, asked, last.n + 1)
                        ELSE /\ files' = [files EXCEPT
                                             ![file_path] = SavedPdf(figures)]
                             /\ last' = Op("export", args,
                                           Append(asked, Write(file_path)),
                                           last.n + 1)
            ELSE LET r == ExportEach(1, files, <<>>, file_path,
                                     confirm_overwrite, answers)
                 IN  \* an answer counts only when the user is asked
                     /\ \A k \in DOMAIN answers :
                            (k > Len(figures) \/ ~confirm_overwrite
                             \/ ~exists(files,
                                        FigureDest(file_path, figures[k].name)))
                                => answers[k]
                     /\ files' = r.files
                     /\ last' = Op("export", args, r.events, last.n + 1)
    /\ UNCHANGED <<SETTINGS, drawVars, mapVars, figures, root_window, restored,
                   add_log>>

\* A new, empty PlotCollection, for each setting of plot_split and of the
\* backend.
InitColl ==
    /\ SETTINGS \in {[DefaultSettings EXCEPT !.plot_split = s,
                                             !.plot_backend = b] :
                        s \in BOOLEAN, b \in {"qt5agg", "tkagg", "agg"}}
    /\ IdleDraw
    /\ IdleMap
    /\ figures = <<>>
    /\ root_window = None
    /\ files = [path \in AllPaths |-> NoFile]
    /\ restored = None
    /\ last = NewCall
    /\ add_log = <<>>

NextColl == add_figure \/ close \/ show

SpecColl == InitColl /\ [][NextColl]_vars

\* All operations of one PlotCollection that starts empty.
MoreOps == Len(add_log) + last.n < MaxOps

NextWindow ==
    \/ MoreOps /\ add_figure
    \/ show
    \/ MoreOps /\ serialize
    \/ MoreOps /\ export
    \/ close

SpecWindow == InitColl /\ [][NextWindow]_vars

\* A pickle an earlier run has left: another collection's figures.
EarlierPickle ==
    PickleDump(<<[name |-> <<"rpe">>, fig |-> Figure("c1")]>>)

\* A pickle of a value that is no mapping: pickle.dump([fig], ...).
ListPickle ==
    [kind |-> "pickle",
     data |-> [type |-> "list",
               items |-> <<[content |-> "c1", restore_to_pylab |-> TRUE]>>]]

\* A populated PlotCollection and a file system in which some of the paths
\* written to are taken.
InitPersist ==
    /\ SETTINGS \in {[DefaultSettings EXCEPT !.plot_split = s] :
                        s \in BOOLEAN}
    /\ IdleDraw
    /\ IdleMap
    /\ figures \in Populated
    /\ root_window = None
    /\ \E taken \in SUBSET {<<"plots", ".", "pickle">>, <<"plots", ".", "pdf">>,
                            <<"plots", "_", "traj_xyz", ".", "png">>} :
       \E blob \in {EarlierPickle, ListPickle, OtherFile} :
          files = [path \in AllPaths |->
                      IF path \notin taken THEN NoFile
                      ELSE IF path \in PicklePaths THEN blob
                      ELSE OtherFile]
    /\ restored = None
    /\ last = NewCall
    /\ add_log = <<>>

NextPersist == serialize \/ deserialize \/ export \/ close

SpecPersist == InitPersist /\ [][NextPersist]_vars

(***************************************************************************)
(* Properties of PlotCollection.                                           *)
(***************************************************************************)
\* The names of the items of an OrderedDict, in order.
NamesOf(d) == [i \in 1..Len(d) |-> d[i].name]

\* The first and the last add_figure call that names name.
FirstAdd(name) ==
    CHOOSE k \in 1..Len(add_log) :
        add_log[k].name = name /\ \A j \in 1..(k - 1) : add_log[j].name # name

LastAdd(name) ==
    CHOOSE k \in 1..Len(add_log) :
        add_log[k].name = name
        /\ \A j \in (k + 1)..Len(add_log) : add_log[j].name # name

\* C2: after any sequence of add_figure calls figures holds each name added
\* exactly once, a name maps to the figure of its most recent add_figure
\* call, and the names iterate in the order in which they were first added.
C2_UpsertKeepsFirstSeenOrder ==
    /\ {figures[i].name : i \in 1..Len(figures)}
           = {add_log[k].name : k \in 1..Len(add_log)}
    /\ \A i, j \in 1..Len(figures) :
           i # j => figures[i].name # figures[j].name
    /\ \A i \in 1..Len(figures) :
           figures[i].fig.content
               = add_log[LastAdd(figures[i].name)].fig.content
    /\ \A i, j \in 1..Len(figures) :
           i < j => FirstAdd(figures[i].name) < FirstAdd(figures[j].name)

C2_Witness ==
    /\ Len(add_log) = 3
    /\ add_log[1].name = add_log[3].name
    /\ add_log[1].name # add_log[2].name
    /\ add_log[1].fig.content # add_log[3].fig.content
    /\ NamesOf(figures) = <<add_log[1].name, add_log[2].name>>
    /\ figures[1].fig.content = add_log[3].fig.content

\* A PlotCollection was just constructed with deserialize=path, right after
\* serialize(path) on the collection.
SerializedThenDeserialized ==
    /\ last.fn = "deserialize"
    /\ last.prev.fn = "serialize"
    /\ last.prev.args.dest = last.args.dest

\* The serialize call before the deserialization was declined by the
\* overwrite confirmation.
SerializeWasDeclined ==
    \E k \in 1..Len(last.prev.events) :
        last.prev.events[k].ev = "confirm" /\ ~last.prev.events[k].result

\* The constructed collection has the names of figures in their order, each
\* with the same figure content.
Reproduced ==
    /\ restored.exc = None
    /\ NamesOf(restored.figures) = NamesOf(figures)
    /\ \A i \in 1..Len(figures) :
           restored.figures[i].fig.content = figures[i].fig.content

IsWrite(e) == e.ev = "write"

Writes(events) ==
    LET w == SelectSeq(events, IsWrite) IN [k \in 1..Len(w) |-> w[k].path]

\* The name of the file of one figure, for an export path of three tokens
\* (stem, dot, extension).
ExpectedDest(file_path, name) ==
    <<file_path[1], "_">> \o name \o <<file_path[2], file_path[3]>>

\* An export that writes one document: extension .pdf and split off.
OneDocument ==
    last.args.file_path = <<"plots", ".", "pdf">> /\ ~SETTINGS.plot_split

\* Every write of the operation made last comes right after a confirmation
\* of the same path that was given.
EachWriteConfirmed ==
    \A k \in 1..Len(last.events) :
        last.events[k].ev = "write" =>
            /\ k > 1
            /\ last.events[k - 1].ev = "confirm"
            /\ last.events[k - 1].path = last.events[k].path
            /\ last.events[k - 1].result

\* The number of figures written by a per-figure export: all of them, or
\* those before the first one whose confirmation was declined.
WrittenCount ==
    IF \E k \in 1..Len(last.events) : ~last.events[k].result
    THEN Len(Writes(last.events))
    ELSE Len(figures)

\* C9: export(path), confirm_overwrite left on: with extension .pdf and
\* split off, one document at path holds every figure as one page, in
\* insertion order; otherwise the figures are written, in insertion order,
\* each to base + '_' + name + ext, and each file is confirmed right
\* before it is written.  Every figure is written when no confirmation is
\* declined; a declined one leaves its file as it was.
C9_Export ==
    (last.fn = "export" /\ last.args.confirm_overwrite) =>
        LET declined == \E k \in 1..Len(last.events) : ~last.events[k].result
            written == Writes(last.events)
            untouched(paths) ==
                \A q \in AllPaths \ paths : files[q] = last.files[q]
        IN  /\ EachWriteConfirmed
            /\ declined => ~last.events[Len(last.events)].result
            /\ IF OneDocument
               THEN IF declined
                    THEN written = <<>> /\ untouched({})
                    ELSE /\ written = <<last.args.file_path>>
                         /\ files[last.args.file_path].kind = "pdf"
                         /\ files[last.args.file_path].data
                                = [i \in 1..Len(figures) |->
                                      figures[i].fig.content]
                         /\ untouched({last.args.file_path})
               ELSE /\ written
                           = [i \in 1..WrittenCount |->
                                 ExpectedDest(last.args.file_path,
                                              figures[i].name)]
                    /\ \A i \in 1..WrittenCount :
                           LET f == files[written[i]]
                           IN  /\ f.kind = "figure"
                               /\ f.data[1] = figures[i].fig.content
                    /\ declined =>
                           /\ WrittenCount < Len(figures)
                           /\ last.events[Len(last.events)].path
                                  = ExpectedDest(last.args.file_path,
                                        figures[WrittenCount + 1].name)
                    /\ untouched({written[i] : i \in 1..WrittenCount})
            /\ figures = last.figures

C9_Witness ==
    /\ last.fn = "export"
    /\ last.args.file_path = <<"plots", ".", "png">>
    /\ last.args.confirm_overwrite
    /\ NamesOf(figures) = <<<<"traj_xy">>, <<"traj_xyz">>>>
    /\ Writes(last.events)
           = <<<<"plots", "_", "traj_xy", ".", "png">>,
               <<"plots", "_", "traj_xyz", ".", "png">>>>
    /\ last.events[3].existed
    /\ files[<<"plots", "_", "traj_xyz", ".", "png">>].kind = "figure"

\* The serialize call made last found a file at dest and wrote dest.
SerializeOverwrote ==
    /\ last.fn = "serialize"
    /\ exists(last.files, last.args.dest)
    /\ Writes(last.events) # <<>>

\* C10 as stated: serialize never overwrites an existing file at dest unless
\* the overwrite confirmation was given, also with confirm_overwrite=False;
\* when it is declined the file and the figures stay as they were.
C10_NeverOverwritesUnconfirmed ==
    /\ SerializeOverwrote => EachWriteConfirmed
    /\ (last.fn = "serialize" /\ Writes(last.events) = <<>>) =>
           (files = last.files /\ figures = last.figures)

\* C10 as amended: serialize called with confirm_overwrite=True overwrites
\* an existing file at dest only after the overwrite confirmation was
\* given, and when it is declined the file and the figures stay as they
\* were; called with confirm_overwrite=False it asks for no confirmation
\* and overwrites the file.
C10_OverwriteNeedsConfirmationWhenAsked ==
    last.fn = "serialize" =>
        /\ (last.args.confirm_overwrite /\ SerializeOverwrote)
               => EachWriteConfirmed
        /\ Writes(last.events) = <<>> =>
               /\ last.args.confirm_overwrite
               /\ ~last.events[1].result
               /\ files = last.files
               /\ figures = last.figures
        /\ ~last.args.confirm_overwrite =>
               /\ last.events = <<Write(last.args.dest)>>
               /\ files[last.args.dest] = PickleDump(figures)

C10_Witness ==
    /\ last.fn = "serialize"
    /\ last.args.confirm_overwrite
    /\ exists(last.files, last.args.dest)
    /\ last.events = <<Confirm(last.args.dest, TRUE, FALSE)>>
    /\ files = last.files
    /\ Len(figures) = 2

\* The file PlotCollection(deserialize=path) read held a blob that does not
\* decode to an OrderedDict of figures.
BlobOfOtherShape ==
    /\ last.fn = "deserialize"
    /\ exists(last.files, last.args.dest)
    /\ (last.files[last.args.dest].kind # "pickle"
        \/ last.files[last.args.dest].data.type # "OrderedDict")

\* C11: constructing a PlotCollection with deserialize=path fails with a
\* data-corruption error, neither with a generic decode error nor with
\* success, whenever the blob at path does not decode to an ordered
\* name->figure mapping; a value of another shape is never installed as the
\* figures.
C11_CorruptBlobRejected ==
    BlobOfOtherShape =>
        /\ restored.exc \notin {None, "UnpicklingError"}
        /\ restored.type # "list"

\* C12: once close() has been called, an operation that follows it
\* (add_figure, show, serialize, export, close) is rejected and has no
\* effect.
C12_NothingAcceptedAfterClose ==
    [][last.fn = "close" =>
          /\ last'.exc # None
          /\ figures' = figures
          /\ files' = files
          /\ root_window' = root_window]_vars

\* C13: root_window is None after construction and stays None through
\* add_figure, serialize, export, close, show on an empty collection and
\* show in split mode; it becomes non-None only inside show() on a
\* non-empty collection with split off and backend qt5agg or tkagg; show()
\* on an empty collection changes no state and opens no display.
C13_RootWindowOnlyFromTabbedShow ==
    /\ [](root_window # None =>
             /\ Len(figures) > 0
             /\ ~SETTINGS.plot_split
             /\ SETTINGS.plot_backend \in {"qt5agg", "tkagg"})
    /\ []((last.fn = "show" /\ Len(figures) > 0 /\ ~SETTINGS.plot_split
              /\ SETTINGS.plot_backend \in {"qt5agg", "tkagg"})
             => root_window # None)
    /\ [][/\ root_window' # root_window =>
               (root_window = None /\ last'.fn = "show")
          /\ (last'.fn = "show" /\ Len(figures) = 0) =>
               /\ UNCHANGED <<figures, root_window, files, restored>>
               /\ last'.args.display = None]_vars

C13_Witness ==
    /\ root_window = "QTabWidget"
    /\ last.fn = "export"
    /\ Len(figures) = 2
    /\ \E i \in 1..Len(figures) : ~figures[i].fig.open

(***************************************************************************)
(* Further properties of the drawing functions.                            *)
(***************************************************************************)
\* C17: for every N and step >= 1, segment i of colored_line_collection
\* connects points[i*step] to points[i*step+1], projected by the indices of
\* the mode; no segment uses an index outside 0..N-1, every i with
\* i*step+1 <= N-1 has its segment, and step = 1 gives exactly N-1 segments.
C17_SegmentEndpoints ==
    (ret.fn = "colored_line_collection" /\ ret.exc = None) =>
        LET N == ret.args.n
            step == ret.args.step
            segs == ret.value.segs
        IN  /\ \A i \in 0..(Len(segs) - 1) :
                  /\ i * step + 1 <= N - 1
                  /\ segs[i + 1]
                        = <<Projected(Position(1, i * step),
                                      ret.args.plot_mode),
                            Projected(Position(1, i * step + 1),
                                      ret.args.plot_mode)>>
            /\ Len(segs) * step + 1 > N - 1
            /\ step = 1 => Len(segs) = Max2(N - 1, 0)

C17_Witness ==
    /\ ret.fn = "colored_line_collection"
    /\ ret.exc = None
    /\ ret.args.n = 9
    /\ ret.args.step = 3
    /\ ret.args.plot_mode = "yx"
    /\ Len(ret.value.segs) = 3
    /\ ret.value.segs[3] = <<<<119, 118>>, <<122, 121>>>>

\* The segment of axis a (1, 2, 3) of pose k (from 0) of the trajectory of
\* the draw_coordinate_axes call kept in ret: from the translation of the
\* pose to the tip of its axis, projected by the table.
AxisSegment(k, a) ==
    LET origin == Position(1, k)
        column == Rotation(k)[a]
        tip == <<origin[1] + ret.args.marker_scale * column[1],
                 origin[2] + ret.args.marker_scale * column[2],
                 origin[3] + ret.args.marker_scale * column[3]>>
    IN  <<Projected(origin, ret.args.plot_mode),
          Projected(tip, ret.args.plot_mode)>>

\* C18: draw_coordinate_axes on N poses with marker_scale > 0 adds exactly
\* 3N segments and raises nothing: segment k runs from the translation of
\* pose k to its x-axis tip with x_color, segment N+k likewise for y with
\* y_color, segment 2N+k for z with z_color; with marker_scale <= 0 nothing
\* is added and nothing is raised.
C18_CoordinateAxes ==
    ret.fn = "draw_coordinate_axes" =>
        LET N == ret.args.n
            added == ax.collections[Len(ax.collections)]
        IN  /\ ret.exc = None
            /\ ret.args.marker_scale <= 0 => ax = ret.before
            /\ ret.args.marker_scale > 0 =>
                  /\ Len(ax.collections) = Len(ret.before.collections) + 1
                  /\ SubSeq(ax.collections, 1, Len(ret.before.collections))
                        = ret.before.collections
                  /\ Len(added.segs) = 3 * N
                  /\ Len(added.colors) = 3 * N
                  /\ \A k \in 0..(N - 1) :
                        /\ added.segs[k + 1] = AxisSegment(k, 1)
                        /\ added.colors[k + 1] = "r"
                        /\ added.segs[N + k + 1] = AxisSegment(k, 2)
                        /\ added.colors[N + k + 1] = "g"
                        /\ added.segs[2 * N + k + 1] = AxisSegment(k, 3)
                        /\ added.colors[2 * N + k + 1] = "b"

C18_Witness ==
    /\ ret.fn = "draw_coordinate_axes"
    /\ ret.args.n = 2
    /\ ret.args.marker_scale = 2
    /\ ret.args.plot_mode = "xy"
    /\ ret.before = UsedAxes
    /\ Len(ax.collections) = 2
    /\ ax.collections[2].segs
           = << <<<<100, 101>>, <<102, 101>>>>, <<<<103, 104>>, <<103, 106>>>>,
                <<<<100, 101>>, <<100, 103>>>>, <<<<103, 104>>, <<101, 104>>>>,
                <<<<100, 101>>, <<100, 101>>>>, <<<<103, 104>>, <<103, 104>>>> >>
    /\ ax.collections[2].colors = <<"r", "r", "g", "g", "b", "b">>

\* C19: in the tabbed Qt display the width and the height the window is
\* resized to are each at least the width and the height of the canvas of
\* every tab.
C19_WindowCoversEveryTab ==
    (last.fn = "show" /\ last.args.display = "tabbed_qt5_window") =>
        \A i \in 1..Len(figures) :
            /\ last.args.resize[1] >= get_width_height(figures[i].fig)[1]
            /\ last.args.resize[2] >= get_width_height(figures[i].fig)[2]

\* A per-figure export with confirm_overwrite on in which a confirmation
\* was declined.
PerFigureExportDeclined ==
    /\ last.fn = "export"
    /\ ~OneDocument
    /\ last.args.confirm_overwrite
    /\ \E e \in 1..Len(last.events) : ~last.events[e].result

\* The position, in insertion order, of the figure whose confirmation was
\* declined.
DeclinedFigure ==
    CHOOSE k \in 1..Len(figures) :
        \E e \in 1..Len(last.events) :
            /\ ~last.events[e].result
            /\ last.events[e].path
                   = ExpectedDest(last.args.file_path, figures[k].name)

\* C20: in a per-figure export with confirm_overwrite on, a declined
\* confirmation for the k-th figure ends the export: the files of the
\* figures before k are written, no file is written for figure k or a later
\* figure, also when its destination does not exist, and the figures are
\* unchanged.
C20_DeclinedEndsExport ==
    PerFigureExportDeclined =>
        /\ ~last.events[Len(last.events)].result
        /\ \A i \in 1..Len(figures) :
              LET dest == ExpectedDest(last.args.file_path, figures[i].name)
                  wrote == \E e \in 1..Len(last.events) :
                               last.events[e] = Write(dest)
              IN  IF i < DeclinedFigure
                  THEN /\ wrote
                       /\ files[dest].kind = "figure"
                       /\ files[dest].data[1] = figures[i].fig.content
                  ELSE /\ ~wrote
                       /\ files[dest] = last.files[dest]
        /\ figures = last.figures

C20_Witness ==
    /\ PerFigureExportDeclined
    /\ last.args.file_path = <<"plots", ".", "png">>
    /\ NamesOf(figures) = <<<<"traj_xyz">>, <<"traj_xy">>>>
    /\ DeclinedFigure = 1
    /\ ~exists(last.files, <<"plots", "_", "traj_xy", ".", "png">>)
    /\ ~exists(files, <<"plots", "_", "traj_xy", ".", "png">>)
    /\ last.events = <<Confirm(<<"plots", "_", "traj_xyz", ".", "png">>,
                               TRUE, FALSE)>>

=============================================================================
